---- MODULE Spec2Model ----
(***************************************************************************)
(* Model of the MSSQL connector: the retry wrappers (withRetry, retry),    *)
(* the pooled runQuery (getPool / poolPromise) and the per-query runQuery  *)
(* that connects, estimates the row count, streams the primary query and   *)
(* closes its own connection.                                              *)
(*                                                                         *)
(* JavaScript strings are sequences of one-character strings, so that      *)
(* includes(), toLowerCase() and replace(/\n|\r/g, ' ') are computed.       *)
(***************************************************************************)
EXTENDS Integers, Sequences, FiniteSets, TLC

(* ------------------------------ bounds --------------------------------- *)
\* largest retry limit (maxRetries / retries) a caller passes
MaxLimit == 3
\* number of concurrent runQuery calls
NumCallers == 2
\* number of mssql.connect calls the driver serves
MaxConnects == 2

\* defaults of withRetry's options
DefaultMaxRetries == 3
DefaultBaseDelay == 1000
DefaultMaxDelay == 10000
\* the options runQuery passes to retry
PooledRetries == 3
PooledDelay == 1000
PooledBackoffFactor == 2

(* ------------------------------- state --------------------------------- *)
\* the retry wrapper called once with an arbitrary work function
VARIABLES
  wKind,      \* "withRetry" | "retry": the wrapper called
  wLimit,     \* maxRetries (withRetry) / retries (retry)
  wBaseDelay, \* baseDelay (withRetry) / delay (retry)
  wMaxDelay,  \* maxDelay (withRetry)
  wPc,        \* "invoke" | "sleep" | "resolved" | "rejected"
  wAttempts,  \* withRetry: attempts; retry: attempt
  wOut,       \* what the caller of the wrapper receives
  wCalls,     \* invocations of the work function so far
  wFails,     \* how many of them threw
  wLast,      \* the value the last failed invocation threw
  wRet,       \* the value the last successful invocation returned
  wFatals,    \* how many thrown values carried no transient signature
  wDelays     \* the waits so far, in ms

wrapVars ==
  <<wKind, wLimit, wBaseDelay, wMaxDelay, wPc, wAttempts, wOut, wCalls, wFails, wLast,
    wRet, wFatals, wDelays>>

\* the pooled runQuery
VARIABLES
  poolPromise, \* 0 (null) or the establishment whose promise it holds
  conn,        \* per establishment: [st, err, cfg]
  nConnects,   \* mssql.connect calls so far
  calls        \* per caller: its runQuery call

poolVars == <<poolPromise, conn, nConnects, calls>>

\* the per-query runQuery
VARIABLES
  pq           \* per caller: its call of the per-query runQuery

pqVars == <<pq>>

\* testConnection
VARIABLES
  tc           \* per caller: its call of testConnection

tcVars == <<tc>>

\* the legacy runQuery (getAuthenticationMethod, no retry)
VARIABLES
  lq           \* per caller: its call of the legacy runQuery

lqVars == <<lq>>

\* buildConfig called on its own
VARIABLES
  bcIn,        \* the database argument
  bcOut        \* what buildConfig returned or threw

bcVars == <<bcIn, bcOut>>

\* mapResultsToEvidenceColumnTypes called on its own
VARIABLES
  tmIn,        \* the columns of the recordset, in result-set order
  tmOut        \* the column types returned

tmVars == <<tmIn, tmOut>>

\* the Node.js process that loaded the pooled module
VARIABLES
  proc,        \* "running" | "exited"
  reactions    \* establishments whose promise got the exit listener's callback

procVars == <<proc, reactions>>

extVars == <<tcVars, lqVars, bcVars, tmVars, procVars>>

vars == <<wrapVars, poolVars, pqVars, extVars>>

\* most columns in a recordset
MaxColumns == 2
\* most 'recordset' events that one request emits
MaxRecordsets == 2

(* ------------------------------ strings -------------------------------- *)
UpperChars == <<"A","B","C","D","E","F","G","H","I","J","K","L","M","N","O","P","Q","R","S","T","U","V","W","X","Y","Z">>
LowerChars == <<"a","b","c","d","e","f","g","h","i","j","k","l","m","n","o","p","q","r","s","t","u","v","w","x","y","z">>

UpperSet == {UpperChars[i] : i \in 1..Len(UpperChars)}
LowerOf == [u \in UpperSet |-> LowerChars[CHOOSE i \in 1..Len(UpperChars) : UpperChars[i] = u]]

\* String.prototype.toLowerCase on one character
toLowerChar(c) == IF c \in UpperSet THEN LowerOf[c] ELSE c

\* String.prototype.toLowerCase
toLowerCase(s) == [i \in 1..Len(s) |-> toLowerChar(s[i])]

\* String.prototype.includes
includes(s, sub) ==
  \E i \in 1..(Len(s) - Len(sub) + 1) : SubSeq(s, i, i + Len(sub) - 1) = sub

\* String.prototype.replace(/\n|\r/g, ' ')
replaceNewlines(s) ==
  [i \in 1..Len(s) |-> IF s[i] = "\n" \/ s[i] = "\r" THEN " " ELSE s[i]]

HasNewline(s) == \E i \in 1..Len(s) : s[i] = "\n" \/ s[i] = "\r"

\* retryableErrors of withRetry
withRetry_retryableErrors ==
  << <<"E","T","I","M","E","O","U","T">>,
     <<"E","C","O","N","N","R","E","S","E","T">>,
     <<"E","C","O","N","N","R","E","F","U","S","E","D">>,
     <<"E","S","O","C","K","E","T">>,
     <<"P","R","O","T","O","C","O","L","_","S","E","Q","U","E","N","C","E","_","T","I","M","E","O","U","T">>,
     <<"E","A","L","R","E","A","D","Y","C","O","N","N","E","C","T","E","D">>,
     <<"E","A","L","R","E","A","D","Y","C","O","N","N","E","C","T","I","N","G">>,
     <<"F","a","i","l","e","d"," ","t","o"," ","c","o","n","n","e","c","t">>,
     <<"C","o","n","n","e","c","t","i","o","n"," ","l","o","s","t">>,
     <<"T","i","m","e","o","u","t">>,
     <<"S","o","c","k","e","t"," ","h","a","n","g"," ","u","p">>,
     <<"N","e","t","w","o","r","k"," ","e","r","r","o","r">>,
     <<"R","e","q","u","e","s","t"," ","f","a","i","l","e","d">>,
     <<"D","e","a","d","l","o","c","k">>,
     <<"T","h","e"," ","c","o","n","n","e","c","t","i","o","n"," ","h","a","s"," ","b","e","e","n"," ","l","o","s","t">>,
     <<"T","h","e"," ","s","e","r","v","e","r"," ","h","a","s"," ","r","e","s","e","t"," ","t","h","e"," ","c","o","n","n","e","c","t","i","o","n">> >>

\* retryableErrors of the pooled runQuery
runQuery_retryableErrors ==
  << <<"E","T","I","M","E","O","U","T">>,
     <<"E","C","O","N","N","R","E","F","U","S","E","D">>,
     <<"R","e","q","u","e","s","t","E","r","r","o","r",":"," ","T","i","m","e","o","u","t">>,
     <<"A"," ","n","e","t","w","o","r","k","-","r","e","l","a","t","e","d"," ","o","r"," ","i","n","s","t","a","n","c","e","-","s","p","e","c","i","f","i","c"," ","e","r","r","o","r"," ","o","c","c","u","r","r","e","d">>,
     <<"C","o","n","n","e","c","t","i","o","n"," ","l","o","s","t">>,
     <<"F","a","i","l","e","d"," ","t","o"," ","c","o","n","n","e","c","t">> >>

(* ------------------------- messages of the model ----------------------- *)
MsgTimeout == <<"E","T","I","M","E","O","U","T">>
MsgConnLost == <<"C","o","n","n","e","c","t","i","o","n"," ","l","o","s","t">>
MsgConnLostLower == <<"c","o","n","n","e","c","t","i","o","n"," ","l","o","s","t">>
MsgDeadlock == <<"D","e","a","d","l","o","c","k">>
MsgLogin == <<"L","o","g","i","n"," ","f","a","i","l","e","d","\r","\n","f","o","r"," ","s","a">>
MsgObject == <<"[","o","b","j","e","c","t"," ","O","b","j","e","c","t","]">>
MsgUnknown == <<"U","n","k","n","o","w","n"," ","e","r","r","o","r">>
MsgErrorName == <<"E","r","r","o","r">>
MsgTypeError == <<"e","r","r",".","r","e","p","l","a","c","e"," ","i","s"," ","n","o","t"," ","a"," ","f","u","n","c","t","i","o","n">>
MsgTypeErrorRead == <<"C","a","n","n","o","t"," ","r","e","a","d"," ","p","r","o","p","e","r","t","i","e","s"," ","o","f"," ","u","n","d","e","f","i","n","e","d"," ","(","r","e","a","d","i","n","g"," ","'","m","e","s","s","a","g","e","'",")">>
MsgConfig == <<"D","a","t","a","b","a","s","e"," ","c","o","n","f","i","g","u","r","a","t","i","o","n"," ","i","s"," ","r","e","q","u","i","r","e","d"," ","a","n","d"," ","m","u","s","t"," ","b","e"," ","a","n"," ","o","b","j","e","c","t">>

(* ------------------------- thrown JavaScript values -------------------- *)
\* shape "Error": an Error instance with .message = text
\* shape "string": a raw string
\* shape "object": an object with no .message, toString() = "[object Object]"
\* shape "undefined": null / undefined
JsError(text) == [shape |-> "Error", text |-> text]
JsString(text) == [shape |-> "string", text |-> text]
JsObject == [shape |-> "object", text |-> <<>>]
JsUndefined == [shape |-> "undefined", text |-> <<>>]

Messages == {MsgTimeout, MsgConnLostLower, MsgDeadlock, MsgLogin, <<>>}

\* the values a work function may throw
Thrown ==
  {JsError(m) : m \in Messages} \cup {JsString(m) : m \in Messages}
    \cup {JsObject, JsUndefined}

\* the values a work function may return
Returned == {"r1", "r2"}

NoValue == [shape |-> "none", text |-> <<>>]

(* ------------------------------ withRetry ------------------------------ *)
\* errMsg.toLowerCase() of each entry of withRetry's retryableErrors
withRetry_retryableErrorsLower ==
  [i \in 1..Len(withRetry_retryableErrors) |-> toLowerCase(withRetry_retryableErrors[i])]

\* withRetry.shouldRetry
shouldRetry(err) ==
  IF err.shape = "Error" /\ err.text # <<>>
  THEN \E i \in 1..Len(withRetry_retryableErrorsLower) :
         includes(toLowerCase(err.text), withRetry_retryableErrorsLower[i])
  ELSE IF err.shape = "string"
  THEN \E i \in 1..Len(withRetry_retryableErrorsLower) :
         includes(toLowerCase(err.text), withRetry_retryableErrorsLower[i])
  ELSE FALSE

\* mutant: gives up one attempt early
withRetry_rethrows_early(attempts, maxRetries, err) ==
  attempts + 1 >= maxRetries \/ ~shouldRetry(err)

\* mutant: the limit is tested with > instead of >=
withRetry_rethrows_gt(attempts, maxRetries, err) ==
  attempts > maxRetries \/ ~shouldRetry(err)

\* mutant: every error is retried until the limit
withRetry_rethrows_noclass(attempts, maxRetries, err) ==
  attempts >= maxRetries

\* withRetry: the test that rethrows, with attempts already incremented
withRetry_rethrows(attempts, maxRetries, err) ==
  attempts >= maxRetries \/ ~shouldRetry(err)

Min(a, b) == IF a <= b THEN a ELSE b

RECURSIVE Pow(_, _)
Pow(b, n) == IF n = 0 THEN 1 ELSE b * Pow(b, n - 1)

\* 1 + Math.random() * 0.2, in thousandths
Jitters == {1000, 1100, 1199}

\* variant: the exponent is the number of failed attempts
withRetry_delay_doubled(attempts, baseDelay, maxDelay, j) ==
  Min(maxDelay, (baseDelay * Pow(2, attempts) * j) \div 1000)

\* withRetry: the backoff delay, in ms (j: the jitter factor in thousandths)
withRetry_delay(attempts, baseDelay, maxDelay, j) ==
  Min(maxDelay, (baseDelay * Pow(2, attempts - 1) * j) \div 1000)

(* -------------------------------- retry -------------------------------- *)
\* mutant: a thrown string loses its text
retry_normalise_dropsText(err) ==
  IF err.shape = "Error" THEN err ELSE JsError(MsgUnknown)

\* retry: "Normalise error"
retry_normalise(err) ==
  IF err.shape = "Error" THEN err
  ELSE IF err.shape = "string" THEN JsError(err.text)
  ELSE IF err.shape = "object" THEN JsError(MsgObject)
  ELSE JsError(MsgUnknown)

\* retry: err.message || err.toString(), of a normalised error
retry_errorMessage(err) == IF err.text # <<>> THEN err.text ELSE MsgErrorName

\* retry: isRetryable, of a normalised error
isRetryable(err, retryableErrors) ==
  \E i \in 1..Len(retryableErrors) :
    includes(retry_errorMessage(err), retryableErrors[i])

\* mutant: one attempt fewer
retry_rethrows_early(attempt, retries, err, retryableErrors) ==
  ~isRetryable(err, retryableErrors) \/ attempt >= retries

\* mutant: every error is retried until the limit
retry_rethrows_noclass(attempt, retries, err, retryableErrors) ==
  attempt = retries + 1

\* variant: the last attempt is tested one attempt late
retry_rethrows_late(attempt, retries, err, retryableErrors) ==
  ~isRetryable(err, retryableErrors) \/ attempt = retries + 2

\* retry: the test that rethrows lastError
retry_rethrows(attempt, retries, err, retryableErrors) ==
  ~isRetryable(err, retryableErrors) \/ attempt = retries + 1

\* variant: the same wait before every retry
retry_waitTime_constant(attempt, delay, backoffFactor) == delay

\* retry: waitTime
retry_waitTime(attempt, delay, backoffFactor) ==
  delay * Pow(backoffFactor, attempt - 1)

(* ======================================================================= *)
(* The retry wrappers, each called once with an arbitrary work function.   *)
(* ======================================================================= *)
Limits == (0..MaxLimit) \cup {DefaultMaxRetries}

\* baseDelay and maxDelay of withRetry's options: the defaults, and a cap
\* that the second wait reaches
BaseDelays == {DefaultBaseDelay, DefaultBaseDelay \div 2}
MaxDelays == {DefaultMaxDelay, 2 * DefaultBaseDelay}

\* the text of a thrown value carries one of the wrapper's transient signatures
HasSignature(kind, err) ==
  /\ err.shape \in {"Error", "string"}
  /\ IF kind = "withRetry"
     THEN \E i \in 1..Len(withRetry_retryableErrorsLower) :
            includes(toLowerCase(err.text), withRetry_retryableErrorsLower[i])
     ELSE \E i \in 1..Len(runQuery_retryableErrors) :
            includes(err.text, runQuery_retryableErrors[i])

InitWrap ==
  /\ wKind \in {"withRetry", "retry"}
  /\ wLimit \in Limits
  /\ wBaseDelay \in IF wKind = "withRetry" THEN BaseDelays ELSE {PooledDelay}
  /\ wMaxDelay \in IF wKind = "withRetry" THEN MaxDelays ELSE {0}
  /\ wPc = "invoke"
  /\ wAttempts = IF wKind = "withRetry" THEN 0 ELSE 1
  /\ wOut = [kind |-> "pending", val |-> NoValue]
  /\ wCalls = 0
  /\ wFails = 0
  /\ wLast = NoValue
  /\ wRet = "none"
  /\ wFatals = 0
  /\ wDelays = <<>>

\* return await fn(), fn resolving with v
WInvokeReturns(v) ==
  /\ wPc = "invoke"
  /\ wCalls' = wCalls + 1
  /\ wRet' = v
  /\ wOut' = [kind |-> "value", val |-> v]
  /\ wPc' = "resolved"
  /\ UNCHANGED <<wKind, wLimit, wBaseDelay, wMaxDelay, wAttempts, wFails, wLast, wFatals, wDelays>>
  /\ UNCHANGED <<poolVars, pqVars, extVars>>

\* withRetry: fn rejects with err; the catch block up to the throw or the sleep
WithRetryCatch(err, j) ==
  /\ wKind = "withRetry"
  /\ wPc = "invoke"
  /\ wCalls' = wCalls + 1
  /\ wFails' = wFails + 1
  /\ wLast' = err
  /\ wFatals' = wFatals + (IF HasSignature(wKind, err) THEN 0 ELSE 1)
  /\ wAttempts' = wAttempts + 1
  /\ IF withRetry_rethrows(wAttempts + 1, wLimit, err)
     THEN /\ wOut' = [kind |-> "error", val |-> err]
          /\ wPc' = "rejected"
          /\ wDelays' = wDelays
     ELSE /\ wDelays' = Append(wDelays,
                 withRetry_delay(wAttempts + 1, wBaseDelay, wMaxDelay, j))
          /\ wPc' = "sleep"
          /\ wOut' = wOut
  /\ UNCHANGED <<wKind, wLimit, wBaseDelay, wMaxDelay, wRet>>
  /\ UNCHANGED <<poolVars, pqVars, extVars>>

\* retry: fn rejects with err; the catch block up to the throw or the setTimeout
RetryCatch(err) ==
  /\ wKind = "retry"
  /\ wPc = "invoke"
  /\ wCalls' = wCalls + 1
  /\ wFails' = wFails + 1
  /\ wLast' = err
  /\ wFatals' = wFatals + (IF HasSignature(wKind, err) THEN 0 ELSE 1)
  /\ IF retry_rethrows(wAttempts, wLimit, retry_normalise(err), runQuery_retryableErrors)
     THEN /\ wOut' = [kind |-> "error", val |-> retry_normalise(err)]
          /\ wPc' = "rejected"
          /\ wDelays' = wDelays
     ELSE /\ wDelays' = Append(wDelays,
                 retry_waitTime(wAttempts, wBaseDelay, PooledBackoffFactor))
          /\ wPc' = "sleep"
          /\ wOut' = wOut
  /\ UNCHANGED <<wKind, wLimit, wBaseDelay, wMaxDelay, wAttempts, wRet>>
  /\ UNCHANGED <<poolVars, pqVars, extVars>>

\* the timer fires: withRetry loops; retry runs attempt++ and the loop test
WTimer ==
  /\ wPc = "sleep"
  /\ IF wKind = "withRetry"
     THEN /\ wAttempts' = wAttempts
          /\ wPc' = "invoke"
          /\ wOut' = wOut
     ELSE /\ wAttempts' = wAttempts + 1
          /\ IF wAttempts + 1 <= wLimit + 1
             THEN wPc' = "invoke" /\ wOut' = wOut
             ELSE wPc' = "resolved" /\ wOut' = [kind |-> "value", val |-> "undefined"]
  /\ UNCHANGED <<wKind, wLimit, wBaseDelay, wMaxDelay, wCalls, wFails, wLast, wRet, wFatals, wDelays>>
  /\ UNCHANGED <<poolVars, pqVars, extVars>>

NextWrap ==
  \/ \E v \in Returned : WInvokeReturns(v)
  \/ \E err \in Thrown, j \in Jitters : WithRetryCatch(err, j)
  \/ \E err \in Thrown : RetryCatch(err)
  \/ WTimer

(* ======================================================================= *)
(* The type mapper: nativeTypeToEvidenceType and                           *)
(* mapResultsToEvidenceColumnTypes.                                        *)
(* ======================================================================= *)
\* undefined: a property that an object does not have, no value
Absent == "undefined"

\* the members of mssql.TYPES that the switch names, case by case
NumberTypes ==
  {"Int", "TinyInt", "BigInt", "SmallInt", "Float", "Real", "Decimal", "Numeric",
   "SmallMoney", "Money"}
DateTypes == {"DateTime", "SmallDateTime", "DateTimeOffset", "Date", "DateTime2"}
StringTypes == {"VarChar", "NVarChar", "Char", "NChar", "Xml", "Text", "NText"}
BooleanTypes == {"Bit"}
DefaultTypes ==
  {"Time", "UniqueIdentifier", "Binary", "VarBinary", "Image", "TVP", "UDT",
   "Geography", "Geometry", "Variant"}

\* the type tags of a column: those of the switch, and one it does not name
NativeTypes ==
  NumberTypes \cup DateTypes \cup StringTypes \cup BooleanTypes \cup DefaultTypes
    \cup {"Json"}

\* variant: Time is mapped with the date types
nativeTypeToEvidenceType_time(data_type, defaultType) ==
  IF data_type \in NumberTypes THEN "number"
  ELSE IF data_type \in DateTypes \cup {"Time"} THEN "date"
  ELSE IF data_type \in StringTypes THEN "string"
  ELSE IF data_type \in BooleanTypes THEN "boolean"
  ELSE defaultType

\* nativeTypeToEvidenceType
nativeTypeToEvidenceType(data_type, defaultType) ==
  IF data_type \in NumberTypes THEN "number"
  ELSE IF data_type \in DateTypes THEN "date"
  ELSE IF data_type \in StringTypes THEN "string"
  ELSE IF data_type \in BooleanTypes THEN "boolean"
  ELSE defaultType

\* mapResultsToEvidenceColumnTypes: the descriptor of one field
mapField(field) ==
  LET evidenceType == nativeTypeToEvidenceType(field.type, Absent)
  IN  IF evidenceType = Absent
      THEN [name |-> field.name, evidenceType |-> "string", typeFidelity |-> "inferred"]
      ELSE [name |-> field.name, evidenceType |-> evidenceType, typeFidelity |-> "precise"]

\* column names: one that is no array index, and two that are
ColumnNames == {"total", "2024", "2023"}

\* the array index that a property name is, 0 when it is none
ArrayIndex(name) == IF name = "2024" THEN 2024 ELSE IF name = "2023" THEN 2023 ELSE 0

\* the recordsets of the model: up to MaxColumns columns with distinct names,
\* in result-set order; the driver adds them to the metadata object in that
\* order, under their names
Recordsets ==
  UNION {{cols \in [1..n -> [name : ColumnNames, type : NativeTypes]] :
            \A i, j \in 1..n : i # j => cols[i].name # cols[j].name} : n \in 0..MaxColumns}

\* the positions of cols whose names satisfy the test, in the order given by
\* before(i, j)
RECURSIVE Ordered(_, _)
Ordered(positions, cols) ==
  IF positions = {} THEN <<>>
  ELSE LET first == CHOOSE i \in positions :
                      \A j \in positions \ {i} :
                        IF ArrayIndex(cols[i].name) # 0
                        THEN ArrayIndex(cols[i].name) < ArrayIndex(cols[j].name)
                        ELSE i < j
       IN  <<first>> \o Ordered(positions \ {first}, cols)

\* Object.values of the metadata object built from cols: the properties whose
\* names are array indices in ascending order, then the others in the order
\* in which they were added
ObjectValues(cols) ==
  LET indices == {i \in 1..Len(cols) : ArrayIndex(cols[i].name) # 0}
      others == (1..Len(cols)) \ indices
      order == Ordered(indices, cols) \o Ordered(others, cols)
  IN  [k \in 1..Len(cols) |-> cols[order[k]]]

\* mapResultsToEvidenceColumnTypes
mapResultsToEvidenceColumnTypes(cols) ==
  LET values == ObjectValues(cols)
  IN  [k \in 1..Len(values) |-> mapField(values[k])]

NotMapped == [done |-> FALSE, cols |-> <<>>]

InitMapper == tmIn \in Recordsets /\ tmOut = NotMapped

\* mapResultsToEvidenceColumnTypes(columns) is called
MapColumns ==
  /\ ~tmOut.done
  /\ tmOut' = [done |-> TRUE, cols |-> mapResultsToEvidenceColumnTypes(tmIn)]
  /\ UNCHANGED <<tmIn, wrapVars, poolVars, pqVars, tcVars, lqVars, bcVars, procVars>>

NextMapper == MapColumns

(* ======================================================================= *)
(* buildConfig: from the database argument to the connection descriptor.   *)
(* ======================================================================= *)
\* values of the numeric options: undefined, a number, or a string
Undef == [t |-> "undefined", n |-> 0, s |-> <<>>]
Num(n) == [t |-> "number", n |-> n, s |-> <<>>]
Str(s) == [t |-> "string", n |-> 0, s |-> s]

NaN == [t |-> "NaN", n |-> 0]
Number(n) == [t |-> "number", n |-> n]

Digits == <<"0","1","2","3","4","5","6","7","8","9">>
IsDigit(c) == \E d \in 1..10 : Digits[d] = c
DigitValue(c) == (CHOOSE d \in 1..10 : Digits[d] = c) - 1

\* the value of the longest prefix of s[i..] made of digits, after acc
RECURSIVE ParseDigits(_, _, _)
ParseDigits(s, i, acc) ==
  IF i > Len(s) \/ ~IsDigit(s[i]) THEN acc
  ELSE ParseDigits(s, i + 1, acc * 10 + DigitValue(s[i]))

\* parseInt of a non-negative integer or of a string
parseInt(v) ==
  IF v.t = "number" THEN Number(v.n)
  ELSE IF v.t = "string" /\ Len(v.s) > 0 /\ IsDigit(v.s[1]) THEN Number(ParseDigits(v.s, 1, 0))
  ELSE NaN

\* v ?? d
Nullish(v, d) == IF v.t = "undefined" THEN d ELSE v

\* the five values of authenticationType that buildConfig knows
KnownAuthenticationTypes ==
  {"default", "azure-active-directory-default", "azure-active-directory-access-token",
   "azure-active-directory-password", "azure-active-directory-service-principal-secret"}

\* values of authenticationType: the known ones, another one, none
AuthenticationTypes == KnownAuthenticationTypes \cup {"ntlm", Absent}

\* values of connection_port, connection_timeout and request_timeout
Ports == {Undef, Num(1434), Str(<<"1","4","3","5">>), Str(<<"a","b","c">>)}
Timeouts == {Undef, Str(<<"5","0","0","0","m","s">>)}

\* values of trust_server_certificate and encrypt: undefined, the strings
\* 'true' and 'false', the boolean true
Flags == {Absent, "'true'", "'false'", "true"}

\* the database argument as an object: sql, the SQL login is filled in; aad,
\* the fields of the Azure variants are filled in
ConfigObject(auth, sql, aad, port, timeout, flag) ==
  [t |-> "object",
   authenticationType |-> auth,
   user |-> IF sql THEN "sa" ELSE Absent,
   password |-> IF sql THEN "sa-password" ELSE Absent,
   server |-> "server", database |-> "database",
   attoken |-> IF aad THEN "token" ELSE Absent,
   pwuname |-> IF aad THEN "pw-user" ELSE Absent,
   pwpword |-> IF aad THEN "pw-password" ELSE Absent,
   pwclientid |-> IF aad THEN "pw-client" ELSE Absent,
   pwtenantid |-> IF aad THEN "pw-tenant" ELSE Absent,
   spclientid |-> IF aad THEN "sp-client" ELSE Absent,
   spclientsecret |-> IF aad THEN "sp-secret" ELSE Absent,
   sptenantid |-> IF aad THEN "sp-tenant" ELSE Absent,
   connection_port |-> port, connection_timeout |-> timeout,
   request_timeout |-> timeout,
   trust_server_certificate |-> flag, encrypt |-> flag]

\* database arguments that are no object: null, a string
NonObjects == {[t |-> "null"], [t |-> "string"]}

BuildInputs ==
  NonObjects \cup
  {ConfigObject(auth, sql, aad, port, timeout, flag) :
     auth \in AuthenticationTypes, sql \in BOOLEAN, aad \in BOOLEAN,
     port \in Ports, timeout \in Timeouts, flag \in Flags}

NoOptions == [k \in {} |-> Absent]
NoAuthentication == [present |-> FALSE, type |-> Absent, options |-> NoOptions]
Authentication(type, options) == [present |-> TRUE, type |-> type, options |-> options]

\* what a call of buildConfig gives
Threw(err) == [kind |-> "threw", val |-> err]
ReturnedUndefined == [kind |-> "undefined", val |-> NoValue]
ReturnedDescriptor(credentials) == [kind |-> "descriptor", val |-> credentials]

\* buildConfig: the credentials object before the branches
buildConfig_credentials(database) ==
  [user |-> database.user,
   server |-> database.server,
   database |-> database.database,
   password |-> database.password,
   port |-> parseInt(Nullish(database.connection_port, Num(1433))),
   connectionTimeout |-> parseInt(Nullish(database.connection_timeout, Num(30000))),
   requestTimeout |-> parseInt(Nullish(database.request_timeout, Num(30000))),
   trustServerCertificate |->
     LET v == IF database.trust_server_certificate = Absent THEN "'false'"
              ELSE database.trust_server_certificate
     IN  v = "'true'" \/ v = "true",
   encrypt |->
     LET v == IF database.encrypt = Absent THEN "'true'" ELSE database.encrypt
     IN  v = "'true'" \/ v = "true",
   authentication |-> NoAuthentication]

\* variant: an unknown authenticationType returns the credentials built
buildConfig_noBranch_credentials(credentials) == ReturnedDescriptor(credentials)

\* buildConfig: no branch matched; the function ends without a return
buildConfig_noBranch(credentials) == ReturnedUndefined

\* buildConfig
buildConfig(database) ==
  IF database.t # "object"
  THEN Threw(JsError(MsgConfig))
  ELSE
    LET credentials == buildConfig_credentials(database)
        type == database.authenticationType
    IN  IF type = "default"
        THEN ReturnedDescriptor(credentials)
        ELSE IF type = "azure-active-directory-default"
        THEN ReturnedDescriptor(
               [credentials EXCEPT !.authentication = Authentication(type, NoOptions)])
        ELSE IF type = "azure-active-directory-access-token"
        THEN ReturnedDescriptor(
               [credentials EXCEPT !.authentication =
                  Authentication(type, [token |-> database.attoken])])
        ELSE IF type = "azure-active-directory-password"
        THEN ReturnedDescriptor(
               [credentials EXCEPT !.authentication =
                  Authentication(type, [userName |-> database.pwuname,
                                        password |-> database.pwpword,
                                        clientId |-> database.pwclientid,
                                        tenantId |-> database.pwtenantid])])
        ELSE IF type = "azure-active-directory-service-principal-secret"
        THEN ReturnedDescriptor(
               [credentials EXCEPT !.authentication =
                  Authentication(type, [clientId |-> database.spclientid,
                                        clientSecret |-> database.spclientsecret,
                                        tenantId |-> database.sptenantid])])
        ELSE buildConfig_noBranch(credentials)

NotCalled == [kind |-> "none", val |-> NoValue]

InitBuild == bcIn \in BuildInputs /\ bcOut = NotCalled

\* buildConfig(database) is called
BuildConfig ==
  /\ bcOut = NotCalled
  /\ bcOut' = buildConfig(bcIn)
  /\ UNCHANGED <<bcIn, wrapVars, poolVars, pqVars, tcVars, lqVars, tmVars, procVars>>

NextBuild == BuildConfig

(* ======================================================================= *)
(* What the driver reports to runQuery.                                    *)
(* ======================================================================= *)
Callers == 1..NumCallers

\* values with which a driver operation fails
DriverErrors == {JsError(MsgConnLost), JsError(MsgLogin), JsObject}

\* a failure that says the connection is gone
ConnectionLevel(err) == err.shape \in {"Error", "string"} /\ includes(err.text, MsgConnLost)

\* the database argument of runQuery: the caller's configuration object, or null
Databases == {"config", "null"}

\* every kind of database argument: also none at all, a string, and the
\* configuration object of another server (access-token variant, other port)
RunQueryArgs == Databases \cup {"missing", "string", "other"}

\* runQuery: the default of the parameter, database = {}
runQuery_database(arg) == IF arg = "missing" THEN "empty" ELSE arg

\* the value that each kind of database stands for
DatabaseValue(database) ==
  IF database = "config" THEN ConfigObject("default", TRUE, FALSE, Undef, Undef, Absent)
  ELSE IF database = "empty" THEN ConfigObject(Absent, FALSE, FALSE, Undef, Undef, Absent)
  ELSE IF database = "other"
  THEN ConfigObject("azure-active-directory-access-token", FALSE, TRUE, Num(1434), Undef, Absent)
  ELSE [t |-> database]

\* buildConfig: the test that throws
buildConfig_throws(database) == buildConfig(DatabaseValue(database)).kind = "threw"

\* buildConfig returns undefined, which runQuery hands to mssql.connect
buildConfig_undefined(database) == buildConfig(DatabaseValue(database)).kind = "undefined"

\* result of SELECT COUNT(*) on the queries of the model
RowCount == 5

NoStream == [kind |-> "pending", val |-> NoValue]

\* the values of expected_count and expected_row_count
Null == [t |-> "null", n |-> 0]
Undefined == [t |-> "undefined", n |-> 0]
Unset == [t |-> "unset", n |-> 0]

\* expected_count?.recordset[0].expected_row_count
expected_row_count(expected_count) ==
  IF expected_count = Null THEN Undefined ELSE expected_count

\* variant: the listener stays registered (request.on)
once_recordset_on(columns, k) == k

\* request.once('recordset', resolve): the columns that the promise holds
\* after the k-th 'recordset' event; 0, none yet
once_recordset(columns, k) == IF columns = 0 THEN k ELSE columns

\* variant: the stream is returned as the batch generator made it
runQuery_results_bare(columns, erc) ==
  [kind |-> "stream", columnTypes |-> FALSE, expectedRowCount |-> erc]

\* runQuery: results, with columnTypes and expectedRowCount attached
runQuery_results(columns, erc) ==
  [kind |-> "stream", columnTypes |-> columns # 0, expectedRowCount |-> erc]

(* ======================================================================= *)
(* The pooled runQuery: getPool and the shared poolPromise.                *)
(* ======================================================================= *)
ConnIds == 1..MaxConnects

\* a call's locals: db (the database argument), attempt (retry), pool
\* (getPool's promise, then the pool it resolved with), erc
\* (expected_row_count), columns (the 'recordset' event whose columns were
\* received, 0 before); recordsets: the events the request has emitted
IdleCall ==
  [pc |-> "idle", db |-> "none", attempt |-> 1, pool |-> 0, erc |-> Unset,
   out |-> NoStream, columns |-> 0, recordsets |-> 0]

InitPooled ==
  /\ poolPromise = 0
  /\ conn = [p \in ConnIds |-> [st |-> "unused", err |-> NoValue, cfg |-> 0]]
  /\ nConnects = 0
  /\ calls = [c \in Callers |-> IdleCall]

\* mutant: getPool connects on every call
getPool_connects_always(pp) == TRUE

\* getPool: if (!poolPromise)
getPool_connects(pp) == pp = 0

\* mutant: the failure handler leaves poolPromise in place
getPool_afterFailure_keeps(pp) == pp

\* getPool: poolPromise = null in the catch handler
getPool_afterFailure(pp) == 0

\* runQuery (pooled): the catch block; the string thrown to the caller
runQuery_catch(err) ==
  LET errStr == IF err.shape = "string" THEN err.text
                ELSE IF err.shape = "Error" THEN err.text
                ELSE IF err.shape = "object" THEN MsgObject
                ELSE MsgUnknown
  IN  JsString(replaceNewlines(errStr))

\* retry's catch block inside the pooled runQuery, for the call r: the error
\* is rethrown to runQuery's catch block, or the timer is set
PooledCatch(r, err) ==
  LET e == retry_normalise(err)
  IN  IF retry_rethrows(r.attempt, PooledRetries, e, runQuery_retryableErrors)
      THEN [IdleCall EXCEPT !.pc = "rejected", !.db = r.db,
                            !.out = [kind |-> "error", val |-> runQuery_catch(e)]]
      ELSE [r EXCEPT !.pc = "sleep", !.pool = 0, !.erc = Unset,
                     !.columns = 0, !.recordsets = 0]

\* queryExecution up to its first await: buildConfig, then getPool; a config
\* that is undefined (cfg 0) makes mssql.connect throw at once or reject later
StartExecution(c, r) ==
  LET database == runQuery_database(r.db)
  IN  IF buildConfig_throws(database)
      THEN /\ calls' = [calls EXCEPT ![c] = PooledCatch(r, JsError(MsgConfig))]
           /\ UNCHANGED <<poolPromise, conn, nConnects>>
      ELSE IF getPool_connects(poolPromise)
      THEN /\ nConnects < MaxConnects
           /\ nConnects' = nConnects + 1
           /\ \/ /\ conn' = [conn EXCEPT ![nConnects + 1] =
                       [st |-> "connecting", err |-> NoValue,
                        cfg |-> IF buildConfig_undefined(database) THEN 0 ELSE c]]
                 /\ poolPromise' = nConnects + 1
                 /\ calls' = [calls EXCEPT ![c] = [r EXCEPT !.pc = "awaitPool",
                                                            !.pool = nConnects + 1]]
              \/ /\ buildConfig_undefined(database)
                 /\ calls' = [calls EXCEPT ![c] = PooledCatch(r, JsError(MsgTypeErrorRead))]
                 /\ UNCHANGED <<poolPromise, conn>>
      ELSE /\ calls' = [calls EXCEPT ![c] = [r EXCEPT !.pc = "awaitPool",
                                                      !.pool = poolPromise]]
           /\ UNCHANGED <<poolPromise, conn, nConnects>>

\* runQuery(queryString, database) is called
PCall(c, db) ==
  /\ calls[c].pc = "idle"
  /\ StartExecution(c, [calls[c] EXCEPT !.db = db])
  /\ UNCHANGED <<wrapVars, pqVars, extVars>>

\* the timer of retry fires: attempt++ and the next queryExecution
PTimer(c) ==
  /\ calls[c].pc = "sleep"
  /\ StartExecution(c, [calls[c] EXCEPT !.attempt = @ + 1])
  /\ UNCHANGED <<wrapVars, pqVars, extVars>>

\* the driver establishes the pool
PoolReady(p) ==
  /\ conn[p].st = "connecting" /\ conn[p].cfg # 0
  /\ conn' = [conn EXCEPT ![p].st = "ready"]
  /\ UNCHANGED <<poolPromise, nConnects, calls>>
  /\ UNCHANGED <<wrapVars, pqVars, extVars>>

\* the driver rejects mssql.connect
PoolFails(p, err) ==
  /\ conn[p].st = "connecting"
  /\ conn' = [conn EXCEPT ![p].st = "failed", ![p].err = err]
  /\ UNCHANGED <<poolPromise, nConnects, calls>>
  /\ UNCHANGED <<wrapVars, pqVars, extVars>>

\* the .catch handler of getPool runs
PoolCatch(p) ==
  /\ conn[p].st = "failed"
  /\ poolPromise' = getPool_afterFailure(poolPromise)
  /\ conn' = [conn EXCEPT ![p].st = "rejected"]
  /\ UNCHANGED <<nConnects, calls>>
  /\ UNCHANGED <<wrapVars, pqVars, extVars>>

\* await getPool(config) resumes: with the pool, the count query is issued
PResume(c) ==
  /\ calls[c].pc = "awaitPool"
  /\ conn[calls[c].pool].st \in {"ready", "rejected"}
  /\ IF conn[calls[c].pool].st = "ready"
     THEN calls' = [calls EXCEPT ![c].pc = "count"]
     ELSE calls' = [calls EXCEPT ![c] = PooledCatch(calls[c], conn[calls[c].pool].err)]
  /\ UNCHANGED <<poolPromise, conn, nConnects>>
  /\ UNCHANGED <<wrapVars, pqVars, extVars>>

\* the count query resolves; the primary query is issued
PCountOk(c) ==
  /\ calls[c].pc = "count"
  /\ calls' = [calls EXCEPT ![c].pc = "primary", ![c].erc = expected_row_count(Number(RowCount))]
  /\ UNCHANGED <<poolPromise, conn, nConnects>>
  /\ UNCHANGED <<wrapVars, pqVars, extVars>>

\* the count query rejects, with whatever error: .catch(() => null); the
\* primary query is issued
PCountFails(c) ==
  /\ calls[c].pc = "count"
  /\ calls' = [calls EXCEPT ![c].pc = "primary", ![c].erc = expected_row_count(Null)]
  /\ UNCHANGED <<poolPromise, conn, nConnects>>
  /\ UNCHANGED <<wrapVars, pqVars, extVars>>

\* the first 'recordset' is emitted: the columns are received, the stream is
\* made and the batch generator is awaited
PRecordset(c) ==
  /\ calls[c].pc = "primary"
  /\ calls' = [calls EXCEPT ![c].pc = "batching", ![c].recordsets = 1,
                             ![c].columns = once_recordset(calls[c].columns, 1)]
  /\ UNCHANGED <<poolPromise, conn, nConnects>>
  /\ UNCHANGED <<wrapVars, pqVars, extVars>>

\* the batch generator resolves: the stream is decorated and returned
PBatched(c) ==
  /\ calls[c].pc = "batching"
  /\ calls' = [calls EXCEPT ![c].pc = "resolved", ![c].attempt = 1, ![c].erc = Unset,
                  ![c].out = runQuery_results(calls[c].columns, calls[c].erc)]
  /\ UNCHANGED <<poolPromise, conn, nConnects>>
  /\ UNCHANGED <<wrapVars, pqVars, extVars>>

\* the request emits a further 'recordset' (the query has several result sets)
PRecordsetAgain(c) ==
  /\ calls[c].pc \in {"batching", "resolved"}
  /\ calls[c].recordsets < MaxRecordsets
  /\ calls' = [calls EXCEPT ![c].recordsets = @ + 1,
                  ![c].columns = once_recordset(calls[c].columns, calls[c].recordsets + 1)]
  /\ UNCHANGED <<poolPromise, conn, nConnects>>
  /\ UNCHANGED <<wrapVars, pqVars, extVars>>

\* a statement of the primary attempt throws into queryExecution
PPrimaryThrows(c, err) ==
  /\ calls[c].pc \in {"primary", "batching"}
  /\ calls' = [calls EXCEPT ![c] = PooledCatch(calls[c], err)]
  /\ UNCHANGED <<poolPromise, conn, nConnects>>
  /\ UNCHANGED <<wrapVars, pqVars, extVars>>

\* the primary query fails before 'recordset': the request emits 'error', which
\* nothing listens to, and the promise awaited for the columns never settles
PPrimaryErrorEvent(c) ==
  /\ calls[c].pc = "primary"
  /\ calls' = [calls EXCEPT ![c] =
                 [IdleCall EXCEPT !.pc = "stuck", !.db = calls[c].db,
                                  !.pool = calls[c].pool]]
  /\ UNCHANGED <<poolPromise, conn, nConnects>>
  /\ UNCHANGED <<wrapVars, pqVars, extVars>>

\* what happens inside the pooled runQuery once it was called
PooledSteps ==
  \/ \E c \in Callers : PTimer(c)
  \/ \E p \in ConnIds : PoolReady(p)
  \/ \E p \in ConnIds, err \in DriverErrors : PoolFails(p, err)
  \/ \E p \in ConnIds : PoolCatch(p)
  \/ \E c \in Callers : PResume(c)
  \/ \E c \in Callers : PCountOk(c)
  \/ \E c \in Callers : PCountFails(c)
  \/ \E c \in Callers : PRecordset(c)
  \/ \E c \in Callers : PBatched(c)
  \/ \E c \in Callers, err \in DriverErrors : PPrimaryThrows(c, err)
  \/ \E c \in Callers : PPrimaryErrorEvent(c)

NextPooled ==
  \/ \E c \in Callers, db \in Databases : PCall(c, db)
  \/ PooledSteps

(* ======================================================================= *)
(* The per-query runQuery: connect, count, primary query, each under       *)
(* withRetry, and a connection that the call closes itself.                *)
(* ======================================================================= *)
\* maxRetries of database.retryOptions
QueryMaxRetries == {1, DefaultMaxRetries}

\* a call's locals: stage (the withRetry call running), attempts and
\* maxRetries (of that withRetry call), pool (1 once mssql.connect resolved),
\* erc (expected_row_count); closes: pool.close() calls so far;
\* stream: the returned batches, "open" or "done"; err: the error the catch
\* block holds while it awaits pool.close(); logged: console.error was called
\* with a close error; columns: the 'recordset' event whose columns were
\* received, 0 before; recordsets: the events the request has emitted
IdleQuery ==
  [pc |-> "idle", stage |-> "none", attempts |-> 0, maxRetries |-> 0,
   pool |-> 0, closes |-> 0, erc |-> Unset, out |-> NoStream, stream |-> "none",
   err |-> NoValue, logged |-> FALSE, columns |-> 0, recordsets |-> 0]

InitPerQuery == pq = [c \in Callers |-> IdleQuery]

\* runQuery (per-query): what the catch block throws to the caller
perQuery_catch(err) ==
  IF err.shape = "undefined" THEN JsError(MsgTypeErrorRead)
  ELSE IF err.shape = "Error" /\ err.text # <<>> THEN JsString(replaceNewlines(err.text))
  ELSE IF err.shape = "string" THEN JsString(replaceNewlines(err.text))
  ELSE JsError(MsgTypeError)

\* the outcomes of pool.close(): it resolves (NoValue) or rejects
CloseOutcomes == {NoValue, JsError(MsgConnLost), JsError(MsgLogin)}

\* variant: the close error takes the place of the primary error
perQuery_afterClose_masks(err, closeErr) ==
  IF closeErr = NoValue THEN perQuery_catch(err) ELSE perQuery_catch(closeErr)

\* runQuery (per-query): what the catch block throws once pool.close() has
\* settled; closeErr is caught and logged
perQuery_afterClose(err, closeErr) == perQuery_catch(err)

\* runQuery (per-query): the catch block, with the locals q, up to its first
\* await: with a pool, pool.close() is called and awaited; with none, the
\* error is thrown to the caller
PerQueryCatch(q, err) ==
  IF q.pool # 0
  THEN [q EXCEPT !.pc = "closing", !.stage = "none", !.attempts = 0,
                 !.maxRetries = 0, !.erc = Unset, !.columns = 0, !.recordsets = 0,
                 !.closes = q.closes + 1, !.err = err]
  ELSE [q EXCEPT !.pc = "rejected", !.stage = "none", !.attempts = 0,
                 !.maxRetries = 0, !.erc = Unset,
                 !.out = [kind |-> "error", val |-> perQuery_catch(err)]]

\* variant: the counter is kept from one withRetry call to the next
withRetry_entry_shared(attempts) == attempts

\* withRetry: let attempts = 0, on entry of each call
withRetry_entry(attempts) == 0

\* mutant: the count query's rejection reaches runQuery's catch block
perQuery_countRejected_throws(q, err) == PerQueryCatch(q, err)

\* runQuery (per-query): withRetry(count query) rejects with err:
\* .catch(() => null), and withRetry(primary query) starts
perQuery_countRejected(q, err) ==
  [q EXCEPT !.erc = expected_row_count(Null), !.stage = "primary",
            !.attempts = withRetry_entry(q.attempts)]

\* runQuery (per-query) up to its first await: buildConfig, then
\* withRetry(mssql.connect)
perQuery_start(q, db, mr) ==
  IF buildConfig_throws(db)
  THEN PerQueryCatch(q, JsError(MsgConfig))
  ELSE [q EXCEPT !.pc = "invoke", !.stage = "connect", !.maxRetries = mr,
                 !.attempts = withRetry_entry(q.attempts)]

\* runQuery(queryString, database) is called
QCall(c, db, mr) ==
  /\ pq[c].pc = "idle"
  /\ pq' = [pq EXCEPT ![c] = perQuery_start(pq[c], db, mr)]
  /\ UNCHANGED <<wrapVars, poolVars, extVars>>

\* mssql.connect resolves: pool is set and withRetry(count query) starts
QConnectOk(c) ==
  /\ pq[c].pc = "invoke" /\ pq[c].stage = "connect"
  /\ pq' = [pq EXCEPT ![c].pool = 1, ![c].stage = "count",
                      ![c].attempts = withRetry_entry(pq[c].attempts)]
  /\ UNCHANGED <<wrapVars, poolVars, extVars>>

\* mssql.connect rejects: withRetry's catch block
QConnectFails(c, err) ==
  /\ pq[c].pc = "invoke" /\ pq[c].stage = "connect"
  /\ IF withRetry_rethrows(pq[c].attempts + 1, pq[c].maxRetries, err)
     THEN pq' = [pq EXCEPT ![c] = PerQueryCatch(pq[c], err)]
     ELSE pq' = [pq EXCEPT ![c].pc = "sleep", ![c].attempts = @ + 1]
  /\ UNCHANGED <<wrapVars, poolVars, extVars>>

\* the count query resolves: withRetry(primary query) starts
QCountOk(c) ==
  /\ pq[c].pc = "invoke" /\ pq[c].stage = "count"
  /\ pq' = [pq EXCEPT ![c].erc = expected_row_count(Number(RowCount)), ![c].stage = "primary",
                      ![c].attempts = withRetry_entry(pq[c].attempts)]
  /\ UNCHANGED <<wrapVars, poolVars, extVars>>

\* the count query rejects: withRetry's catch block, and .catch(() => null)
\* when it rethrows
QCountFails(c, err) ==
  /\ pq[c].pc = "invoke" /\ pq[c].stage = "count"
  /\ IF withRetry_rethrows(pq[c].attempts + 1, pq[c].maxRetries, err)
     THEN pq' = [pq EXCEPT ![c] = perQuery_countRejected(pq[c], err)]
     ELSE pq' = [pq EXCEPT ![c].pc = "sleep", ![c].attempts = @ + 1]
  /\ UNCHANGED <<wrapVars, poolVars, extVars>>

\* the first 'recordset' is emitted: the columns are received, the stream is
\* made and the batch generator is awaited
QRecordset(c) ==
  /\ pq[c].pc = "invoke" /\ pq[c].stage = "primary"
  /\ pq' = [pq EXCEPT ![c].pc = "batching", ![c].recordsets = 1,
                      ![c].columns = once_recordset(pq[c].columns, 1)]
  /\ UNCHANGED <<wrapVars, poolVars, extVars>>

\* the batch generator resolves: the stream is decorated and returned
QBatched(c) ==
  /\ pq[c].pc = "batching"
  /\ pq' = [pq EXCEPT ![c].pc = "resolved", ![c].stage = "none", ![c].attempts = 0,
              ![c].maxRetries = 0, ![c].erc = Unset, ![c].stream = "open",
              ![c].out = runQuery_results(pq[c].columns, pq[c].erc)]
  /\ UNCHANGED <<wrapVars, poolVars, extVars>>

\* the request emits a further 'recordset' (the query has several result sets)
QRecordsetAgain(c) ==
  /\ \/ pq[c].pc = "batching"
     \/ pq[c].pc = "resolved" /\ pq[c].stream = "open"
  /\ pq[c].recordsets < MaxRecordsets
  /\ pq' = [pq EXCEPT ![c].recordsets = @ + 1,
              ![c].columns = once_recordset(pq[c].columns, pq[c].recordsets + 1)]
  /\ UNCHANGED <<wrapVars, poolVars, extVars>>

\* a statement of the primary attempt throws: withRetry's catch block
QPrimaryThrows(c, err) ==
  /\ pq[c].pc \in {"invoke", "batching"} /\ pq[c].stage = "primary"
  /\ IF withRetry_rethrows(pq[c].attempts + 1, pq[c].maxRetries, err)
     THEN pq' = [pq EXCEPT ![c] = PerQueryCatch(pq[c], err)]
     ELSE pq' = [pq EXCEPT ![c].pc = "sleep", ![c].attempts = @ + 1,
                         ![c].columns = 0, ![c].recordsets = 0]
  /\ UNCHANGED <<wrapVars, poolVars, extVars>>

\* the primary query fails before 'recordset': the request emits 'error', which
\* nothing listens to, and columnsPromise never settles
QPrimaryErrorEvent(c) ==
  /\ pq[c].pc = "invoke" /\ pq[c].stage = "primary"
  /\ pq' = [pq EXCEPT ![c].pc = "stuck", ![c].stage = "none", ![c].attempts = 0,
                      ![c].maxRetries = 0, ![c].erc = Unset]
  /\ UNCHANGED <<wrapVars, poolVars, extVars>>

\* await pool.close() settles in the catch block: a close error is logged,
\* and the error is thrown to the caller
QCloseSettles(c, closeErr) ==
  /\ pq[c].pc = "closing"
  /\ pq' = [pq EXCEPT ![c].pc = "rejected", ![c].err = NoValue,
              ![c].logged = (closeErr # NoValue),
              ![c].out = [kind |-> "error",
                          val |-> perQuery_afterClose(pq[c].err, closeErr)]]
  /\ UNCHANGED <<wrapVars, poolVars, extVars>>

\* sleep(delay) ends: withRetry calls the work function of its stage again
QTimer(c) ==
  /\ pq[c].pc = "sleep"
  /\ pq' = [pq EXCEPT ![c].pc = "invoke"]
  /\ UNCHANGED <<wrapVars, poolVars, extVars>>

\* the caller consumes the stream to its end: closeConnection()
QDrain(c) ==
  /\ pq[c].pc = "resolved" /\ pq[c].stream = "open"
  /\ pq' = [pq EXCEPT ![c].stream = "done",
              ![c].closes = IF pq[c].pool # 0 THEN @ + 1 ELSE @]
  /\ UNCHANGED <<wrapVars, poolVars, extVars>>

\* what happens inside the per-query runQuery once it was called
PerQuerySteps ==
  \/ \E c \in Callers : QConnectOk(c)
  \/ \E c \in Callers, err \in DriverErrors : QConnectFails(c, err)
  \/ \E c \in Callers : QCountOk(c)
  \/ \E c \in Callers, err \in DriverErrors : QCountFails(c, err)
  \/ \E c \in Callers : QRecordset(c)
  \/ \E c \in Callers : QBatched(c)
  \/ \E c \in Callers, err \in DriverErrors : QPrimaryThrows(c, err)
  \/ \E c \in Callers : QPrimaryErrorEvent(c)
  \/ \E c \in Callers : QTimer(c)
  \/ \E c \in Callers, closeErr \in CloseOutcomes : QCloseSettles(c, closeErr)

NextPerQuery ==
  \/ \E c \in Callers, db \in Databases, mr \in QueryMaxRetries : QCall(c, db, mr)
  \/ PerQuerySteps
  \/ \E c \in Callers : QDrain(c)

(* ======================================================================= *)
(* testConnection: runQuery('SELECT 1 AS TEST;'), exhaustStream, true, and *)
(* a catch handler that turns a failure into {reason}.                     *)
(* ======================================================================= *)
MsgInvalid == <<"I","n","v","a","l","i","d"," ","C","r","e","d","e","n","t","i","a","l","s">>

\* what testConnection resolves with
True == [kind |-> "true", val |-> NoValue]
Reason(v) == [kind |-> "reason", val |-> v]
Rejection(v) == [kind |-> "rejection", val |-> v]

\* a call's state: fnCalls counts the invocations of the function that the
\* per-query testConnection hands to withRetry
IdleTest == [pc |-> "idle", out |-> NoStream, fnCalls |-> 0]

InitTest == tc = [c \in Callers |-> IdleTest]

\* variant: the reason is the error's text, with no fallback
testConnection_catch_noFallback(e) == Reason(JsString(e.text))

\* variant: the handler passes the failure on
testConnection_catch_rethrows(e) == Rejection(e)

\* testConnection: the .catch handler,
\* (e) => ({ reason: e.message ?? (e.toString() || 'Invalid Credentials') });
\* reading .message of null or undefined throws
testConnection_catch(e) ==
  IF e.shape = "undefined" THEN Rejection(JsError(MsgTypeErrorRead))
  ELSE IF e.shape = "Error" THEN Reason(JsString(e.text))
  ELSE IF e.shape = "object" THEN Reason(JsString(MsgObject))
  ELSE IF e.text = <<>> THEN Reason(JsString(MsgInvalid))
  ELSE Reason(JsString(e.text))

\* the promise chain has settled with r: the pooled testConnection settles with
\* it; in the per-query one withRetry returns a value and looks at a rejection
tc_settle(t, r) ==
  IF r.kind # "rejection" \/ ~shouldRetry(r.val)
  THEN [t EXCEPT !.pc = IF r.kind = "rejection" THEN "rejected" ELSE "resolved",
                 !.out = r]
  ELSE [t EXCEPT !.pc = "sleep"]

\* the runQuery call that the testConnection call c made
tc_runQuery(c) == IF pq[c].pc # "off" THEN pq[c] ELSE calls[c]

\* testConnection(opts), per-query: withRetry invokes the function, which
\* calls runQuery
TCallPerQuery(c, db, mr) ==
  /\ tc[c].pc = "idle" /\ pq[c].pc = "idle"
  /\ pq' = [pq EXCEPT ![c] = perQuery_start(pq[c], db, mr)]
  /\ tc' = [tc EXCEPT ![c].pc = "runQuery", ![c].fnCalls = @ + 1]
  /\ UNCHANGED <<wrapVars, poolVars, lqVars, bcVars, tmVars, procVars>>

\* testConnection(opts), pooled: runQuery is called
TCallPooled(c, db) ==
  /\ tc[c].pc = "idle" /\ calls[c].pc = "idle"
  /\ StartExecution(c, [calls[c] EXCEPT !.db = db])
  /\ tc' = [tc EXCEPT ![c].pc = "runQuery"]
  /\ UNCHANGED <<wrapVars, pqVars, lqVars, bcVars, tmVars, procVars>>

\* runQuery resolved: .then(exhaustStream) starts to consume the stream
TThen(c) ==
  /\ tc[c].pc = "runQuery" /\ tc_runQuery(c).pc = "resolved"
  /\ tc' = [tc EXCEPT ![c].pc = "drain"]
  /\ UNCHANGED <<wrapVars, poolVars, pqVars, lqVars, bcVars, tmVars, procVars>>

\* the stream ends: the per-query stream closes its connection, and
\* .then(() => true) settles the call
TDrained(c) ==
  /\ tc[c].pc = "drain"
  /\ tc' = [tc EXCEPT ![c] = tc_settle(tc[c], True)]
  /\ IF pq[c].pc # "off"
     THEN pq' = [pq EXCEPT ![c].stream = "done", ![c].closes = @ + 1]
     ELSE pq' = pq
  /\ UNCHANGED <<wrapVars, poolVars, lqVars, bcVars, tmVars, procVars>>

\* the stream fails while exhaustStream consumes it: the .catch handler;
\* whether the failed stream closed its connection is up to the library
TDrainFails(c, err, closed) ==
  /\ tc[c].pc = "drain"
  /\ tc' = [tc EXCEPT ![c] = tc_settle(tc[c], testConnection_catch(err))]
  /\ IF pq[c].pc # "off"
     THEN pq' = [pq EXCEPT ![c].stream = "failed", ![c].closes = @ + closed]
     ELSE pq' = pq
  /\ UNCHANGED <<wrapVars, poolVars, lqVars, bcVars, tmVars, procVars>>

\* runQuery rejected: the .catch handler
TCatch(c) ==
  /\ tc[c].pc = "runQuery" /\ tc_runQuery(c).pc = "rejected"
  /\ tc' = [tc EXCEPT ![c] = tc_settle(tc[c], testConnection_catch(tc_runQuery(c).out.val))]
  /\ UNCHANGED <<wrapVars, poolVars, pqVars, lqVars, bcVars, tmVars, procVars>>

NextTest ==
  \/ \E c \in Callers, db \in Databases, mr \in QueryMaxRetries : TCallPerQuery(c, db, mr)
  \/ \E c \in Callers, db \in Databases : TCallPooled(c, db)
  \/ \E c \in Callers : TThen(c)
  \/ \E c \in Callers : TDrained(c)
  \/ \E c \in Callers, err \in DriverErrors, closed \in {0, 1} : TDrainFails(c, err, closed)
  \/ \E c \in Callers : TCatch(c)
  \/ PooledSteps
  \/ PerQuerySteps

(* ======================================================================= *)
(* The legacy runQuery: getAuthenticationMethod, one mssql.connect, no     *)
(* retry, and a catch block that throws only an error with a message.      *)
(* ======================================================================= *)
\* database.authenticator: absent, one of the four known values, or another
Authenticators ==
  {"absent", "aadpassword", "aadaccesstoken", "aadserviceprincipal", "aaddefault", "sqlpassword"}

\* getAuthenticationMethod: authentication.type of the credentials returned,
\* or "undefined" when no branch matches
getAuthenticationMethod(authtype) ==
  IF authtype = "aadpassword" THEN "azure-active-directory-password"
  ELSE IF authtype = "aadaccesstoken" THEN "azure-active-directory-access-token"
  ELSE IF authtype = "aadserviceprincipal" THEN "azure-active-directory-service-principal-secret"
  ELSE IF authtype = "aaddefault" THEN "azure-active-directory-default"
  ELSE "undefined"

\* runQuery (legacy): database.authenticator ?? 'aadaccesstoken'
legacy_authtype(authenticator) ==
  IF authenticator = "absent" THEN "aadaccesstoken" ELSE authenticator

\* a call's locals: credentials (their authentication.type), pool (1 once
\* mssql.connect resolved), erc (expected_row_count); closes: pool.close()
\* calls so far; stream: the returned batches; columns: the 'recordset'
\* event whose columns were received, 0 before; recordsets: the events the
\* request has emitted
IdleLegacy ==
  [pc |-> "idle", credentials |-> "none", pool |-> 0, closes |-> 0,
   erc |-> Unset, out |-> NoStream, stream |-> "none", columns |-> 0,
   recordsets |-> 0]

InitLegacy == lq = [c \in Callers |-> IdleLegacy]

\* runQuery (legacy): the catch block: an error with a message is thrown as
\* a flattened string; any other value is logged and the call returns
\* undefined; pool.close() is not called
LegacyCatch(q, err) ==
  IF err.shape = "Error" /\ err.text # <<>>
  THEN [q EXCEPT !.pc = "rejected", !.erc = Unset, !.columns = 0, !.recordsets = 0,
                 !.out = [kind |-> "error", val |-> JsString(replaceNewlines(err.text))]]
  ELSE [q EXCEPT !.pc = "returned", !.erc = Unset, !.columns = 0, !.recordsets = 0,
                 !.out = [kind |-> "value", val |-> JsUndefined]]

\* runQuery(queryString, database): the credentials are built and
\* mssql.connect is called
LCall(c, authenticator) ==
  /\ lq[c].pc = "idle"
  /\ lq' = [lq EXCEPT ![c].pc = "connect",
              ![c].credentials = getAuthenticationMethod(legacy_authtype(authenticator))]
  /\ UNCHANGED <<wrapVars, poolVars, pqVars, tcVars, bcVars, tmVars, procVars>>

\* mssql.connect resolves; the count query is issued
LConnectOk(c) ==
  /\ lq[c].pc = "connect" /\ lq[c].credentials # "undefined"
  /\ lq' = [lq EXCEPT ![c].pc = "count", ![c].pool = 1]
  /\ UNCHANGED <<wrapVars, poolVars, pqVars, tcVars, bcVars, tmVars, procVars>>

\* mssql.connect rejects
LConnectFails(c, err) ==
  /\ lq[c].pc = "connect"
  /\ lq' = [lq EXCEPT ![c] = LegacyCatch(lq[c], err)]
  /\ UNCHANGED <<wrapVars, poolVars, pqVars, tcVars, bcVars, tmVars, procVars>>

\* the count query resolves; the primary query is issued
LCountOk(c) ==
  /\ lq[c].pc = "count"
  /\ lq' = [lq EXCEPT ![c].pc = "primary", ![c].erc = expected_row_count(Number(RowCount))]
  /\ UNCHANGED <<wrapVars, poolVars, pqVars, tcVars, bcVars, tmVars, procVars>>

\* the count query rejects: .catch(() => null); the primary query is issued
LCountFails(c) ==
  /\ lq[c].pc = "count"
  /\ lq' = [lq EXCEPT ![c].pc = "primary", ![c].erc = expected_row_count(Null)]
  /\ UNCHANGED <<wrapVars, poolVars, pqVars, tcVars, bcVars, tmVars, procVars>>

\* the first 'recordset' is emitted: the columns are received, the stream is
\* made and the batch generator is awaited
LRecordset(c) ==
  /\ lq[c].pc = "primary"
  /\ lq' = [lq EXCEPT ![c].pc = "batching", ![c].recordsets = 1,
                      ![c].columns = once_recordset(lq[c].columns, 1)]
  /\ UNCHANGED <<wrapVars, poolVars, pqVars, tcVars, bcVars, tmVars, procVars>>

\* the batch generator resolves: the stream is decorated and returned
LBatched(c) ==
  /\ lq[c].pc = "batching"
  /\ lq' = [lq EXCEPT ![c].pc = "resolved", ![c].erc = Unset, ![c].stream = "open",
              ![c].out = runQuery_results(lq[c].columns, lq[c].erc)]
  /\ UNCHANGED <<wrapVars, poolVars, pqVars, tcVars, bcVars, tmVars, procVars>>

\* the request emits a further 'recordset' (the query has several result sets)
LRecordsetAgain(c) ==
  /\ \/ lq[c].pc = "batching"
     \/ lq[c].pc = "resolved" /\ lq[c].stream = "open"
  /\ lq[c].recordsets < MaxRecordsets
  /\ lq' = [lq EXCEPT ![c].recordsets = @ + 1,
              ![c].columns = once_recordset(lq[c].columns, lq[c].recordsets + 1)]
  /\ UNCHANGED <<wrapVars, poolVars, pqVars, tcVars, bcVars, tmVars, procVars>>

\* a statement after the count query throws (issuing the primary query,
\* building the batches, mapping the columns)
LPrimaryThrows(c, err) ==
  /\ lq[c].pc \in {"primary", "batching"}
  /\ lq' = [lq EXCEPT ![c] = LegacyCatch(lq[c], err)]
  /\ UNCHANGED <<wrapVars, poolVars, pqVars, tcVars, bcVars, tmVars, procVars>>

\* the primary query fails before 'recordset': the promise awaited for the
\* columns never settles
LPrimaryErrorEvent(c) ==
  /\ lq[c].pc = "primary"
  /\ lq' = [lq EXCEPT ![c].pc = "stuck", ![c].erc = Unset]
  /\ UNCHANGED <<wrapVars, poolVars, pqVars, tcVars, bcVars, tmVars, procVars>>

\* the caller consumes the stream to its end: closeConnection()
LDrain(c) ==
  /\ lq[c].pc = "resolved" /\ lq[c].stream = "open"
  /\ lq' = [lq EXCEPT ![c].stream = "done", ![c].closes = @ + 1]
  /\ UNCHANGED <<wrapVars, poolVars, pqVars, tcVars, bcVars, tmVars, procVars>>

NextLegacy ==
  \/ \E c \in Callers, a \in Authenticators : LCall(c, a)
  \/ \E c \in Callers : LConnectOk(c)
  \/ \E c \in Callers, err \in DriverErrors : LConnectFails(c, err)
  \/ \E c \in Callers : LCountOk(c)
  \/ \E c \in Callers : LCountFails(c)
  \/ \E c \in Callers : LRecordset(c)
  \/ \E c \in Callers : LBatched(c)
  \/ \E c \in Callers, err \in DriverErrors : LPrimaryThrows(c, err)
  \/ \E c \in Callers : LPrimaryErrorEvent(c)
  \/ \E c \in Callers : LDrain(c)

\* process.on('exit'): the listener registers pool => pool.close() on
\* poolPromise when it is set; Node.js ends the process as soon as the 'exit'
\* listeners return, without running promise callbacks queued by them
ProcessExit ==
  /\ proc = "running"
  /\ proc' = "exited"
  /\ reactions' = IF poolPromise # 0 THEN {poolPromise} ELSE {}
  /\ UNCHANGED <<wrapVars, poolVars, pqVars, tcVars, lqVars, bcVars, tmVars>>

(* ======================================================================= *)
(* Specifications.                                                         *)
(* ======================================================================= *)
OffWrap ==
  /\ wKind = "none" /\ wLimit = 0 /\ wBaseDelay = 0 /\ wMaxDelay = 0 /\ wPc = "off"
  /\ wAttempts = 0 /\ wOut = NoStream /\ wCalls = 0 /\ wFails = 0
  /\ wLast = NoValue /\ wRet = "none" /\ wFatals = 0 /\ wDelays = <<>>

OffPooled ==
  /\ poolPromise = 0
  /\ conn = [p \in ConnIds |-> [st |-> "unused", err |-> NoValue, cfg |-> 0]]
  /\ nConnects = 0
  /\ calls = [c \in Callers |-> [IdleCall EXCEPT !.pc = "off"]]

OffPerQuery == pq = [c \in Callers |-> [IdleQuery EXCEPT !.pc = "off"]]

OffTest == tc = [c \in Callers |-> [IdleTest EXCEPT !.pc = "off"]]

OffLegacy == lq = [c \in Callers |-> [IdleLegacy EXCEPT !.pc = "off"]]

OffBuild == bcIn = [t |-> "off"] /\ bcOut = [kind |-> "off", val |-> NoValue]

OffMapper == tmIn = <<>> /\ tmOut = [done |-> TRUE, cols |-> <<>>]

OffExt == OffTest /\ OffLegacy /\ OffBuild /\ OffMapper

\* one call of a retry wrapper with an arbitrary work function
\* the process is running and its exit listener has not run
Running == proc = "running" /\ reactions = {}

InitRetry == InitWrap /\ OffPooled /\ OffPerQuery /\ OffExt /\ Running
SpecRetry == InitRetry /\ [][NextWrap]_vars

\* the same, with a work function that always settles and timers that fire
SpecRetryFair == InitRetry /\ [][NextWrap]_vars /\ WF_vars(NextWrap)

\* concurrent calls of the pooled runQuery
InitPooledSpec == OffWrap /\ InitPooled /\ OffPerQuery /\ OffExt /\ Running
SpecPooled == InitPooledSpec /\ [][NextPooled]_vars

\* concurrent calls of the per-query runQuery
InitPerQuerySpec == OffWrap /\ OffPooled /\ InitPerQuery /\ OffExt /\ Running
SpecPerQuery == InitPerQuerySpec /\ [][NextPerQuery]_vars

\* the same, where every driver operation completes or fails and every timer
\* fires: a step of a call that stays possible is eventually taken
SpecPerQueryFair ==
  InitPerQuerySpec /\ [][NextPerQuery]_vars /\ WF_vars(PerQuerySteps)

\* either runQuery
InitRunQuery == InitPooledSpec \/ InitPerQuerySpec
NextRunQuery == NextPooled \/ NextPerQuery
SpecRunQuery == InitRunQuery /\ [][NextRunQuery]_vars

\* concurrent calls of the pooled runQuery with every kind of argument
NextConfig ==
  \/ \E c \in Callers, db \in RunQueryArgs : PCall(c, db)
  \/ PooledSteps
SpecConfig == InitPooledSpec /\ [][NextConfig]_vars

\* concurrent calls of the pooled runQuery in a process that exits at any time
NextShutdown ==
  \/ proc = "running" /\ NextPooled
  \/ ProcessExit
SpecShutdown == InitPooledSpec /\ [][NextShutdown]_vars

\* buildConfig called once with an arbitrary argument
InitBuildSpec ==
  /\ OffWrap /\ OffPooled /\ OffPerQuery /\ OffTest /\ OffLegacy /\ InitBuild /\ OffMapper
  /\ Running
SpecBuildConfig == InitBuildSpec /\ [][NextBuild]_vars

\* mapResultsToEvidenceColumnTypes called once with an arbitrary recordset
InitMapperSpec ==
  /\ OffWrap /\ OffPooled /\ OffPerQuery /\ OffTest /\ OffLegacy /\ OffBuild /\ InitMapper
  /\ Running
SpecMapper == InitMapperSpec /\ [][NextMapper]_vars

\* concurrent calls of the legacy runQuery
InitLegacySpec ==
  /\ OffWrap /\ OffPooled /\ OffPerQuery /\ OffTest /\ InitLegacy /\ OffBuild /\ OffMapper
  /\ Running
SpecLegacy == InitLegacySpec /\ [][NextLegacy]_vars

\* concurrent calls of one of the three runQuery, on queries with one or
\* several result sets
InitSchema ==
  \/ InitPooledSpec
  \/ InitPerQuerySpec
  \/ InitLegacySpec
NextSchema ==
  \/ NextPooled
  \/ NextPerQuery
  \/ NextLegacy
  \/ \E c \in Callers : PRecordsetAgain(c)
  \/ \E c \in Callers : QRecordsetAgain(c)
  \/ \E c \in Callers : LRecordsetAgain(c)
SpecSchema == InitSchema /\ [][NextSchema]_vars

\* concurrent calls of testConnection, of the pooled or the per-query variant
InitTestConnection ==
  /\ OffWrap /\ InitTest /\ OffLegacy /\ OffBuild /\ OffMapper /\ Running
  /\ \/ InitPooled /\ OffPerQuery
     \/ OffPooled /\ InitPerQuery
SpecTestConnection == InitTestConnection /\ [][NextTest]_vars

(* ------------------------- claims on the wrappers ---------------------- *)
Max(a, b) == IF a >= b THEN a ELSE b

\* C2: a work function that fails k times with transient-signature errors and
\* then succeeds, under a limit greater than k, makes the call resolve with the
\* function's value after exactly k+1 invocations: the call never gives up on
\* transient failures while the limit exceeds their number, and a resolved call
\* carries the returned value with one invocation more than there were failures.
C2_TransientThenSuccess ==
  /\ (wPc = "rejected" /\ wFatals = 0) => wLimit <= wFails
  /\ wPc = "resolved" =>
       /\ wOut = [kind |-> "value", val |-> wRet]
       /\ wRet \in Returned
       /\ wCalls = wFails + 1

C2_Witness ==
  wPc = "resolved" /\ wFails = 2 /\ wFatals = 0 /\ wLimit > 2 /\ wCalls = 3

\* C3: a thrown value with no transient signature ends the call at once: it is
\* rejected by that invocation with no wait after it, so a first failure that is
\* fatal means exactly one invocation and no wait at all, whatever the limit.
C3_FatalFailsAtOnce ==
  /\ (wLast # NoValue /\ ~HasSignature(wKind, wLast)) =>
       /\ wPc = "rejected"
       /\ Len(wDelays) = wFails - 1
  /\ (wFails >= 1 /\ wFatals = wFails) =>
       /\ wPc = "rejected" /\ wCalls = 1 /\ wDelays = <<>>

C3_Witness ==
  /\ wPc = "rejected" /\ wCalls = 1 /\ wLimit = MaxLimit
  /\ wLast = JsError(MsgLogin) /\ wDelays = <<>>

\* C4 (as claimed): withRetry never invokes the work function more than
\* maxRetries times, for every maxRetries >= 0.
C4_Original ==
  wKind = "withRetry" => wCalls <= wLimit

\* C4 (amended): for maxRetries >= 1 withRetry invokes the work function at most
\* maxRetries times, waits only while fewer than maxRetries attempts failed, and
\* rethrows a transient failure exactly when the failed attempts reach
\* maxRetries; with maxRetries = 0 the function is still invoked once.
C4_AttemptsBounded ==
  wKind = "withRetry" =>
    /\ wCalls <= Max(1, wLimit)
    /\ wAttempts = wFails
    /\ wPc = "sleep" => wFails < wLimit
    /\ (wPc = "rejected" /\ HasSignature(wKind, wLast)) => wFails = Max(1, wLimit)
    /\ (wPc = "invoke" /\ wLimit = 0) => wCalls = 0

C4_Witness ==
  /\ wKind = "withRetry" /\ wPc = "rejected" /\ wLimit = 3 /\ wCalls = 3
  /\ HasSignature(wKind, wLast)

\* C5 (as claimed): the value the caller of either wrapper receives on a
\* terminal failure is the very value the last invocation threw.
C5_Original ==
  wPc = "rejected" => wOut = [kind |-> "error", val |-> wLast]

\* C5 (amended): a terminal failure is always a rejection, never a return;
\* withRetry rethrows the thrown value itself; retry rethrows it unchanged when
\* it is an Error instance, and otherwise a new Error whose message is the
\* thrown string, the thrown object's toString(), or "Unknown error".
C5_ErrorPropagated ==
  /\ wPc = "rejected" =>
       /\ wOut.kind = "error"
       /\ wKind = "withRetry" => wOut.val = wLast
       /\ (wKind = "retry" /\ wLast.shape = "Error") => wOut.val = wLast
       /\ (wKind = "retry" /\ wLast.shape = "string") =>
            wOut.val = [shape |-> "Error", text |-> wLast.text]
       /\ (wKind = "retry" /\ wLast.shape = "object") =>
            wOut.val = [shape |-> "Error", text |-> MsgObject]
       /\ (wKind = "retry" /\ wLast.shape = "undefined") =>
            wOut.val = [shape |-> "Error", text |-> MsgUnknown]
  /\ wPc = "resolved" => (wOut.kind = "value" /\ wCalls = wFails + 1)
  /\ wPc \in {"invoke", "sleep"} => wOut.kind = "pending"

C5_Witness ==
  /\ wPc = "rejected" /\ wKind = "retry" /\ wFails = 2
  /\ wLast = JsString(MsgLogin)
  /\ wOut.val = JsError(MsgLogin)

\* C14: the n-th wait of a withRetry call is
\* min(maxDelay, baseDelay * 2^(n-1) * jitter) for a jitter in [1.0, 1.2): it
\* is at most maxDelay, at least min(maxDelay, baseDelay * 2^(n-1)), below
\* baseDelay * 2^(n-1) * 1.2, and no shorter than the wait before it.
C14_Backoff ==
  wKind = "withRetry" =>
    \A n \in 1..Len(wDelays) :
      /\ \E j \in 1000..1199 :
           wDelays[n] = Min(wMaxDelay, (wBaseDelay * Pow(2, n - 1) * j) \div 1000)
      /\ wDelays[n] <= wMaxDelay
      /\ wDelays[n] >= Min(wMaxDelay, wBaseDelay * Pow(2, n - 1))
      /\ wDelays[n] * 10 < wBaseDelay * Pow(2, n - 1) * 12
      /\ n > 1 => wDelays[n - 1] <= wDelays[n]

C14_Witness ==
  /\ wKind = "withRetry" /\ Len(wDelays) >= 2
  /\ wBaseDelay = DefaultBaseDelay
  /\ wDelays[1] = 1199 /\ wDelays[2] = wMaxDelay

\* C15: with the options of the pooled runQuery (retries 3, delay 1000,
\* backoffFactor 2) and a queryExecution that fails with a retryable error
\* every time, retry invokes it 4 times, waits 1000, 2000 and 4000 ms between
\* the invocations, and rethrows from the 4th without a further wait.
C15_PooledSchedule ==
  (wKind = "retry" /\ wLimit = PooledRetries /\ wFatals = 0) =>
    /\ wCalls <= 4
    /\ wPc = "rejected" <=> wFails = 4
    /\ wPc = "sleep" => (wFails \in 1..3 /\ Len(wDelays) = wFails)
    /\ wPc \in {"invoke", "resolved", "rejected"} => Len(wDelays) = Min(wFails, 3)
    /\ \A n \in 1..Len(wDelays) : wDelays[n] = <<1000, 2000, 4000>>[n]

C15_Witness ==
  /\ wKind = "retry" /\ wLimit = PooledRetries /\ wPc = "rejected"
  /\ wCalls = 4 /\ wFatals = 0 /\ wDelays = <<1000, 2000, 4000>>

(* ------------------------- claims on runQuery -------------------------- *)
InFlight(p) == conn[p].st = "connecting"

\* C1: in the pooled runQuery at most one mssql.connect is in flight at any
\* time; a caller that reaches getPool while one is in flight awaits that
\* establishment and issues no connect of its own; and a caller that got past
\* getPool holds the pool of an establishment that succeeded.
C1_SingleFlight ==
  /\ [](Cardinality({p \in ConnIds : InFlight(p)}) <= 1)
  /\ [](\A c \in Callers :
          calls[c].pc \in {"count", "primary"} => conn[calls[c].pool].st = "ready")
  /\ [][\A c \in Callers, p \in ConnIds :
          (InFlight(p) /\ calls[c].pc \in {"idle", "sleep"} /\ calls'[c].pc = "awaitPool")
            => (calls'[c].pool = p /\ nConnects' = nConnects /\ InFlight(p)')]_vars

C1_Witness ==
  /\ nConnects = 1 /\ InFlight(1)
  /\ \A c \in Callers : calls[c].pc = "awaitPool" /\ calls[c].pool = 1

\* C6 (as claimed): on every path of the per-query runQuery on which a
\* connection was acquired and which has come to its end (the call rejected, the
\* stream consumed to its end, or the primary query failed), pool.close() was
\* invoked exactly once.
C6_Original ==
  \A c \in Callers :
    ( /\ pq[c].pool # 0
      /\ \/ pq[c].pc \in {"rejected", "stuck"}
         \/ pq[c].pc = "resolved" /\ pq[c].stream = "done" )
      => pq[c].closes = 1

\* C7 (as claimed): a retried primary attempt starts from a fresh connection
\* acquisition: when the wait after a failed primary attempt ends, the call
\* issues mssql.connect.
C7_Original ==
  [][\A c \in Callers :
       (pq[c].stage = "primary" /\ pq[c].pc = "sleep" /\ pq'[c].pc = "invoke")
         => pq'[c].stage = "connect"]_vars

\* C8 (as claimed): a connection-level error on the shared handle discards
\* it, at establishment and after it is ready: when the .catch handler of a
\* failed establishment has run, and when a primary attempt on the ready pool
\* ends with a connection-lost error (retried, or rethrown as "Connection
\* lost"), poolPromise no longer holds that handle.
C8_Original ==
  /\ [][\A p \in ConnIds :
          (conn[p].st = "failed" /\ conn'[p].st = "rejected") => poolPromise' # p]_vars
  /\ [][\A c \in Callers :
          ( /\ calls[c].pc = "primary"
            /\ \/ calls'[c].pc = "sleep"
               \/ calls'[c].pc = "rejected" /\ calls'[c].out.val = JsString(MsgConnLost) )
            => poolPromise' # calls[c].pool]_vars

\* C9: a failed count query never fails runQuery: whenever a call leaves the
\* count step (the query resolved, or rejected for good) the primary query is
\* issued next; after a failure expected_row_count is undefined, and the stream
\* then returned has expectedRowCount undefined and is there to be consumed.
C9_CountLeniency ==
  /\ [][\A c \in Callers :
          (pq[c].stage = "count" /\ pq[c].pc = "invoke" /\ pq'[c] # pq[c])
            => \/ pq'[c].stage = "count" /\ pq'[c].pc = "sleep"
               \/ /\ pq'[c].stage = "primary" /\ pq'[c].pc = "invoke"
                  /\ pq'[c].erc \in {Number(RowCount), Undefined}]_vars
  /\ [][\A c \in Callers :
          (pq[c].erc = Undefined /\ pq'[c].pc = "resolved" /\ pq[c].pc # "resolved")
            => /\ pq'[c].out.kind = "stream"
               /\ pq'[c].out.expectedRowCount = Undefined
               /\ pq'[c].stream = "open"]_vars
  /\ [][\A c \in Callers :
          (calls[c].pc = "count" /\ calls'[c] # calls[c])
            => calls'[c].pc = "primary" /\ calls'[c].erc \in {Number(RowCount), Undefined}]_vars
  /\ [][\A c \in Callers :
          (calls[c].erc = Undefined /\ calls'[c].pc = "resolved" /\ calls[c].pc # "resolved")
            => /\ calls'[c].out.kind = "stream"
               /\ calls'[c].out.expectedRowCount = Undefined]_vars

C9_Witness ==
  \E c \in Callers :
    /\ pq[c].pc = "resolved" /\ pq[c].stream = "done"
    /\ pq[c].out.expectedRowCount = Undefined

\* C10 (as claimed): every failure of runQuery reaches the caller as a
\* rejection whose value is a string with no newline or carriage return.
C10_Original ==
  \A c \in Callers :
    pq[c].pc = "rejected" =>
      /\ pq[c].out.kind = "error"
      /\ pq[c].out.val.shape = "string"
      /\ ~HasNewline(pq[c].out.val.text)

\* C11: in the per-query runQuery, an error caught while a connection is held
\* makes the catch block call pool.close() before anything reaches the caller,
\* and once the close has settled the caller receives the value derived from
\* the caught error alone, whether the close succeeded or failed; a close
\* error is logged and nothing else.
C11_CloseNeverMasks ==
  /\ [](\A c \in Callers :
          pq[c].pc = "closing" =>
            /\ pq[c].closes = 1 /\ pq[c].pool # 0
            /\ pq[c].out.kind = "pending" /\ pq[c].err # NoValue)
  /\ [](\A c \in Callers :
          (pq[c].pc = "rejected" /\ pq[c].pool # 0) => pq[c].closes = 1)
  /\ [](\A c \in Callers : pq[c].logged => (pq[c].pc = "rejected" /\ pq[c].pool # 0))
  /\ [][\A c \in Callers :
          (pq[c].pc = "closing" /\ pq'[c].pc = "rejected")
            => pq'[c].out = [kind |-> "error", val |-> perQuery_catch(pq[c].err)]]_vars

C11_Witness ==
  \E c \in Callers :
    /\ pq[c].pc = "rejected" /\ pq[c].logged /\ pq[c].closes = 1
    /\ pq[c].out.val = JsString(replaceNewlines(MsgLogin))

C13_Original ==
  \A c \in Callers :
    (lq[c].pool # 0 /\ lq[c].pc \in {"rejected", "returned"}) => lq[c].closes >= 1

(* ------------------------- claims on buildConfig ----------------------- *)
\* the option fields that each authentication variant uses
VariantOptions(type) ==
  IF type = "azure-active-directory-access-token" THEN {"token"}
  ELSE IF type = "azure-active-directory-password"
  THEN {"userName", "password", "clientId", "tenantId"}
  ELSE IF type = "azure-active-directory-service-principal-secret"
  THEN {"clientId", "clientSecret", "tenantId"}
  ELSE {}

\* C16 (as claimed): for each of the five known values of authenticationType
\* the descriptor returned has an authentication block of exactly that type,
\* whose options are the fields of that variant, and carries the SQL login
\* (user, password) only for the variant that uses it.
C16_Original ==
  (bcOut.kind \notin {"none", "off"} /\ bcIn.t = "object"
     /\ bcIn.authenticationType \in KnownAuthenticationTypes) =>
    /\ bcOut.kind = "descriptor"
    /\ bcOut.val.authentication.present
    /\ bcOut.val.authentication.type = bcIn.authenticationType
    /\ DOMAIN bcOut.val.authentication.options = VariantOptions(bcIn.authenticationType)
    /\ bcIn.authenticationType # "default" =>
         (bcOut.val.user = Absent /\ bcOut.val.password = Absent)

C18_Original ==
  /\ [](\A c \in Callers :
          calls[c].db \in {"missing", "null", "string"} =>
            /\ calls[c].pc = "rejected"
            /\ calls[c].out = [kind |-> "error", val |-> JsString(MsgConfig)])
  /\ [][\A c \in Callers :
          (calls[c].pc = "idle" /\ calls'[c].db \in {"missing", "null", "string"})
            => nConnects' = nConnects]_vars

(* ------------------------- claims on the type mapper ------------------- *)
\* the column of the recordset with the given name
ColumnNamed(cols, name) == cols[CHOOSE i \in 1..Len(cols) : cols[i].name = name]

\* C19 (as claimed): the integer, decimal and money types give number, the
\* date, time and datetime-offset types give date, the character, text and
\* xml types give string, bit gives boolean, all precise; every other tag
\* gives string, inferred; and the k-th descriptor is that of the k-th column.
C19_Original ==
  tmOut.done =>
    /\ Len(tmOut.cols) = Len(tmIn)
    /\ \A k \in 1..Len(tmIn) :
         LET type == tmIn[k].type
             d == tmOut.cols[k]
         IN  /\ d.name = tmIn[k].name
             /\ type \in NumberTypes => (d.evidenceType = "number" /\ d.typeFidelity = "precise")
             /\ type \in DateTypes \cup {"Time"} =>
                  (d.evidenceType = "date" /\ d.typeFidelity = "precise")
             /\ type \in StringTypes => (d.evidenceType = "string" /\ d.typeFidelity = "precise")
             /\ type = "Bit" => (d.evidenceType = "boolean" /\ d.typeFidelity = "precise")
             /\ type \notin NumberTypes \cup DateTypes \cup {"Time"} \cup StringTypes \cup {"Bit"}
                  => (d.evidenceType = "string" /\ d.typeFidelity = "inferred")

\* C19 (amended): number, date (DateTime, SmallDateTime, DateTimeOffset, Date,
\* DateTime2), string and boolean types are mapped precisely; Time and every
\* other tag give string, inferred; there is one descriptor per column, under
\* the column's name; the descriptors follow the result-set order when no
\* column name is an array index, and otherwise those columns come first, in
\* ascending order of their names, before the others in result-set order.
C19_TypeMapper ==
  tmOut.done =>
    /\ Len(tmOut.cols) = Len(tmIn)
    /\ \A k \in 1..Len(tmOut.cols) :
         LET d == tmOut.cols[k]
         IN  /\ \E i \in 1..Len(tmIn) : tmIn[i].name = d.name
             /\ LET type == ColumnNamed(tmIn, d.name).type
                IN  /\ type \in NumberTypes => (d.evidenceType = "number" /\ d.typeFidelity = "precise")
                    /\ type \in DateTypes => (d.evidenceType = "date" /\ d.typeFidelity = "precise")
                    /\ type \in StringTypes => (d.evidenceType = "string" /\ d.typeFidelity = "precise")
                    /\ type = "Bit" => (d.evidenceType = "boolean" /\ d.typeFidelity = "precise")
                    /\ type \in DefaultTypes \cup {"Json"} =>
                         (d.evidenceType = "string" /\ d.typeFidelity = "inferred")
    /\ (\A i \in 1..Len(tmIn) : ArrayIndex(tmIn[i].name) = 0) =>
         \A k \in 1..Len(tmIn) : tmOut.cols[k].name = tmIn[k].name
    /\ \A k, l \in 1..Len(tmOut.cols) :
         k < l =>
           LET a == tmOut.cols[k].name
               b == tmOut.cols[l].name
           IN  /\ ArrayIndex(b) # 0 => (ArrayIndex(a) # 0 /\ ArrayIndex(a) < ArrayIndex(b))
               /\ (ArrayIndex(a) = 0 /\ ArrayIndex(b) = 0) =>
                    \E i, j \in 1..Len(tmIn) :
                      i < j /\ tmIn[i].name = a /\ tmIn[j].name = b

C19_Witness ==
  /\ tmOut.done /\ Len(tmIn) = 2
  /\ tmIn[1] = [name |-> "total", type |-> "Time"]
  /\ tmIn[2] = [name |-> "2024", type |-> "Money"]
  /\ tmOut.cols[1] = [name |-> "2024", evidenceType |-> "number", typeFidelity |-> "precise"]
  /\ tmOut.cols[2] = [name |-> "total", evidenceType |-> "string", typeFidelity |-> "inferred"]

(* ------------------------- claims on the schema signal ----------------- *)
\* the schema-ready ordering on one call r of a runQuery
SchemaOrdered(r) ==
  /\ r.columns \in {0, 1}
  /\ r.pc = "batching" => (r.columns = 1 /\ r.out.kind = "pending")
  /\ r.out.kind = "stream" =>
       /\ r.pc = "resolved" /\ r.columns = 1
       /\ r.out.columnTypes
       /\ r.out.expectedRowCount \in {Number(RowCount), Undefined}

\* C20: in the pooled, the per-query and the legacy runQuery, only the first
\* 'recordset' event of a primary attempt is consumed, however many the
\* request emits; the batches are made only once it was received; the call
\* resolves only from the step that attached columnTypes and
\* expectedRowCount; and a stream that a caller can read has columnTypes.
C20_SchemaReady ==
  /\ [](\A c \in Callers :
          SchemaOrdered(calls[c]) /\ SchemaOrdered(pq[c]) /\ SchemaOrdered(lq[c]))
  /\ [](\A c \in Callers :
          /\ pq[c].stream # "none" => (pq[c].out.kind = "stream" /\ pq[c].out.columnTypes)
          /\ lq[c].stream # "none" => (lq[c].out.kind = "stream" /\ lq[c].out.columnTypes))
  /\ [][\A c \in Callers :
          /\ (calls'[c].pc = "resolved" /\ calls[c].pc # "resolved") => calls[c].pc = "batching"
          /\ (pq'[c].pc = "resolved" /\ pq[c].pc # "resolved") => pq[c].pc = "batching"
          /\ (lq'[c].pc = "resolved" /\ lq[c].pc # "resolved") => lq[c].pc = "batching"]_vars

C20_Witness ==
  \E c \in Callers :
    /\ pq[c].pc = "resolved" /\ pq[c].recordsets = 2 /\ pq[c].columns = 1
    /\ pq[c].out.kind = "stream" /\ pq[c].stream = "done"

(* ------------------------- claims on the pool's lifecycle -------------- *)
\* the state of the shared handle
HandleState ==
  IF poolPromise = 0 THEN "uninitialized"
  ELSE IF conn[poolPromise].st \in {"connecting", "failed"} THEN "connecting"
  ELSE conn[poolPromise].st

\* C22 (as claimed): when the process has ended, every pool that was
\* established has been closed, and the shared handle only moves
\* uninitialized -> connecting -> ready -> closed, with a reset from
\* connecting to uninitialized on failure.
C22_Original ==
  /\ [](proc = "exited" =>
          \A p \in ConnIds : conn[p].st \in {"ready", "closed"} => conn[p].st = "closed")
  /\ [][HandleState' # HandleState =>
          <<HandleState, HandleState'>> \in
            {<<"uninitialized", "connecting">>, <<"connecting", "ready">>,
             <<"connecting", "uninitialized">>, <<"ready", "closed">>}]_vars

\* C26: in the pooled runQuery a caller that awaits an establishment that
\* failed resumes into the retry's catch block with that failure (it waits or
\* rejects, and never goes on to the count query); the handler that resets
\* poolPromise runs while poolPromise still holds the failed establishment,
\* so the handle never keeps an establishment whose handler has run and a
\* later establishment is never discarded; and a getPool call that finds the
\* handle reset issues exactly one connect, which becomes the handle.
C26_FailedEstablishment ==
  /\ [](\A p \in ConnIds : conn[p].st = "failed" => poolPromise = p)
  /\ [](poolPromise # 0 => conn[poolPromise].st \in {"connecting", "ready", "failed"})
  /\ [][\A c \in Callers :
          (/\ calls[c].pc = "awaitPool"
           /\ conn[calls[c].pool].st \in {"failed", "rejected"}
           /\ calls'[c] # calls[c])
          => /\ calls'[c].pc \in {"sleep", "rejected"}
             /\ calls'[c].pc = "rejected" =>
                  calls'[c].out.val =
                    runQuery_catch(retry_normalise(conn[calls[c].pool].err))]_vars
  /\ [][(poolPromise' # poolPromise /\ poolPromise # 0)
          => (conn[poolPromise].st = "failed" /\ poolPromise' = 0)]_vars
  /\ [][\A c \in Callers :
          (poolPromise = 0 /\ calls[c].pc # "awaitPool" /\ calls'[c].pc = "awaitPool")
          => /\ nConnects' = nConnects + 1
             /\ poolPromise' = nConnects'
             /\ calls'[c].pool = nConnects'
             /\ conn'[nConnects'].st = "connecting"]_vars

C26_Witness ==
  /\ conn[1].st = "rejected" /\ poolPromise = 2 /\ conn[2].st = "connecting"
  /\ \E c, d \in Callers :
       /\ calls[c].pc = "awaitPool" /\ calls[c].pool = 2
       /\ calls[d].pc = "sleep"

\* the configuration that buildConfig makes of the argument of the call r
ConfigOf(r) == buildConfig(DatabaseValue(runQuery_database(r.db)))

\* C27: in the pooled runQuery, once the shared handle is ready no step
\* issues a connect or replaces the handle, whatever configuration a later
\* call passes; every count and primary query runs on the handle, which was
\* built by the caller that established it from that caller's configuration.
C27_HandleReused ==
  /\ [](\A c \in Callers :
          calls[c].pc \in {"count", "primary", "batching"} =>
            /\ calls[c].pool = poolPromise
            /\ conn[poolPromise].st = "ready"
            /\ conn[poolPromise].cfg \in Callers
            /\ ConfigOf(calls[conn[poolPromise].cfg]).kind = "descriptor")
  /\ [][(poolPromise # 0 /\ conn[poolPromise].st = "ready")
          => (nConnects' = nConnects /\ poolPromise' = poolPromise /\ conn' = conn)]_vars

C27_Witness ==
  \E c, d \in Callers :
    /\ calls[c].pc = "primary" /\ calls[c].db = "other"
    /\ conn[calls[c].pool].cfg = d /\ calls[d].db = "config"
    /\ ConfigOf(calls[c]) # ConfigOf(calls[d])
    /\ nConnects = 1

C23_RetryContexts ==
  /\ [](\A c \in Callers :
          /\ pq[c].pc = "sleep" => pq[c].attempts < pq[c].maxRetries
          /\ pq[c].pc \in {"invoke", "batching"} => pq[c].attempts < Max(1, pq[c].maxRetries))
  /\ [][\A c \in Callers :
          /\ (pq'[c].stage # pq[c].stage /\ pq'[c].stage \in {"connect", "count", "primary"})
               => pq'[c].attempts = 0
          /\ pq'[c] # pq[c] =>
               \A d \in Callers \ {c} : pq'[d].attempts = pq[d].attempts]_vars

C23_Witness ==
  \E c, d \in Callers :
    /\ c # d
    /\ pq[c].stage = "primary" /\ pq[c].pc = "sleep" /\ pq[c].maxRetries = 3
    /\ pq[c].attempts = 2 /\ pq[c].erc = Undefined
    /\ pq[d].stage = "count" /\ pq[d].pc = "invoke" /\ pq[d].attempts = 0
    /\ pq[d].maxRetries = 3

(* ------------------------- claims on termination ----------------------- *)
\* C25: with a work function that always settles, withRetry invokes it at
\* most max(1, maxRetries) times and retry at most retries + 1 times, each
\* waits fewer times than that, the call eventually resolves or rejects, a
\* rejection follows the failed attempt with no wait after it, and a settled
\* call neither invokes nor waits again.
C25_Terminates ==
  /\ [](wKind = "withRetry" =>
          (wCalls <= Max(1, wLimit) /\ Len(wDelays) < Max(1, wLimit)))
  /\ [](wKind = "retry" => (wCalls <= wLimit + 1 /\ Len(wDelays) <= wLimit))
  /\ [](wPc = "rejected" => Len(wDelays) = wFails - 1)
  /\ <>(wPc \in {"resolved", "rejected"})
  /\ [][(wPc \in {"resolved", "rejected"}) =>
          (wPc' = wPc /\ wCalls' = wCalls /\ wDelays' = wDelays)]_vars

C25_Witness ==
  /\ wKind = "retry" /\ wLimit = MaxLimit /\ wPc = "rejected"
  /\ wCalls = MaxLimit + 1 /\ Len(wDelays) = MaxLimit

\* C24 (as claimed): under fairness every runQuery call eventually settles:
\* it resolves with a ResultStream or rejects with an error, also when the
\* primary query fails before the driver emits 'recordset'.
C24_Original ==
  \A c \in Callers :
    [](pq[c].pc \notin {"idle", "off"} => <>(pq[c].pc \in {"resolved", "rejected"}))

====
